---------------------------- MODULE Spec2Model ----------------------------
(***************************************************************************)
(* Model of the ffmpeg-rest composition pipeline.                          *)
(*                                                                         *)
(* Part 1 (SpecCaption): the caption timing compiler of                    *)
(* src/utils/ass-generator.ts: segmentWords followed by the dialogue        *)
(* emission of generateASS, applied to bounded timestamp lists.            *)
(*                                                                         *)
(* Part 2 (Spec): the job pipeline: routes, queue, worker and the three     *)
(* video processors, with the compose filter graph.                        *)
(* Part 3 (SpecFit): the background-fit stage as the engine evaluates it.  *)
(* Part 4 (SpecOverlay): overlay sizing and getOverlayPosition.            *)
(* Part 5 (SpecMerge): the merge argument builder and the engine's reading *)
(* of its argument list.                                                   *)
(* Part 6 (SpecCache): getCachedBackgroundVideo called by concurrent jobs.  *)
(* Part 7 (SpecMergeOrder): the parallel clip downloads of a merge job.     *)
(* Part 8 (SpecHealth, SpecHealthFair): checkRedisHealth.                   *)
(*                                                                         *)
(* Caption times are kept in tenths of a second (the code holds seconds as         *)
(* floating point numbers); every conversion the code does on them         *)
(* (seconds -> milliseconds, seconds -> H:MM:SS.CC) is computed on that    *)
(* unit.  Binary floating point rounding is not modelled.                  *)
(***************************************************************************)
EXTENDS Integers, Sequences, FiniteSets, TLC

VARIABLES
    \* ---- caption compiler (generateASS / segmentWords) ----
    timestamps,         \* WordTimestamp[] handed to generateASS
    wordsPerSegment,    \* options.wordsPerSegment, 0 = not given
    segments,           \* the segments returned by segmentWords
    ass,                \* the Dialogue lines appended to the document
    cpc,                \* position inside generateASS
    \* ---- job pipeline (controller, queue, worker, processors) ----
    env,                \* env.STORAGE_MODE of the server and of the worker process
    requests,           \* number of HTTP requests received so far
    request,            \* route and body of the request in flight
    nextJobId,          \* id the queue gives to the next job
    job,                \* the job of the request in flight
    ppc,                \* position of the processor inside the current attempt
    stages,             \* stages the current attempt has completed, in order
    thrown,             \* message of the error thrown in the current attempt
    tempDirs,           \* job ids whose TEMP_DIR/<job.id> exists on disk
    result,             \* JobResult returned by the processor in the current attempt
    response,           \* HTTP response sent for the request in flight
    inputs,             \* compose: the files given to the engine with -i, in order
    filterComplex,      \* compose: the filter graph handed to the engine
    captions,           \* compose: Dialogue lines written to captions.ass
    outputFile,         \* what the engine left at outputPath in the current attempt
    maps,               \* compose: the streams given to the engine with -map
    \* ---- background fit of the compose graph, as the engine evaluates it ----
    source,             \* pixel size of the background video (input 0)
    target,             \* resolution.split('x').map(Number)
    scaled,             \* frame size after scale=...:force_original_aspect_ratio=increase
    cropped,            \* result of crop=targetWidth:targetHeight
    fpc,                \* position inside the background-fit filter chain
    \* ---- overlay sizing and placement (processVideoOverlay, steps 3 and 4) ----
    overlayJob,         \* overlayScale, overlayPosition, overlayMarginX/Y of job.data
    videoSize,          \* [videoWidth, videoHeight] probed from the video
    ovlSize,            \* [ovlWidth, ovlHeight] probed from the overlay image
    targetSize,         \* targetWidth, targetHeight
    position,           \* the expression returned by getOverlayPosition
    overlayFilter,      \* the filter_complex handed to the engine
    placed,             \* where the engine's overlay filter puts the image
    opc,                \* position inside the sizing and placement steps
    \* ---- merge argument builder (processVideoMerge, steps 2 to 4) ----
    videos,             \* job.data.videos with the length of each downloaded file
    transition,         \* job.data.transition
    transitionDuration, \* job.data.transitionDuration, in seconds
    durations,          \* effective duration of each clip, in seconds
    args,               \* inputs, filter graph and -map labels handed to the engine
    outcome,            \* what the engine makes of args
    mpc,                \* position inside processVideoMerge
    \* ---- background cache (getCachedBackgroundVideo, called by concurrent jobs) ----
    cacheFiles,         \* state of /tmp/cache/backgrounds/<backgroundId>.mp4 on disk
    writers,            \* per backgroundId, the calls whose write stream is open on the file
    gpc,                \* per job, the position inside getCachedBackgroundVideo
    calling,            \* per job, the backgroundId of its call
    calls,              \* per job, the number of calls made so far
    returned,           \* per job, what its last call returned or threw
    downloaded,         \* backgroundIds for which a download has completed
    \* ---- merge downloads (processVideoMerge, steps 1 to 3, per input) ----
    pendingDownloads,   \* indices of the clips whose downloadFile has not resolved yet
    arrived,            \* clip indices in the order their downloads resolved
    inputPaths,         \* the inputPaths array
    probedDurations,    \* the durations array, as probed from the files of inputPaths
    engineInputs,       \* per -i of the argument list: -ss, -to and the file
    dpc,                \* position inside steps 1 to 3
    \* ---- Redis health check (config/redis.ts, checkRedisHealth) ----
    redisServer,        \* what the Redis server does with the connection's commands
    attempt,            \* the loop variable of checkRedisHealth
    waited,             \* the delays slept so far, in milliseconds
    hpc                 \* position inside checkRedisHealth

capVars == <<timestamps, wordsPerSegment, segments, ass, cpc>>

jobVars == <<env, requests, request, nextJobId, job, ppc, stages, thrown, tempDirs,
             result, response, inputs, filterComplex, captions, outputFile, maps>>

fitVars == <<source, target, scaled, cropped, fpc>>

ovlVars == <<overlayJob, videoSize, ovlSize, targetSize, position, overlayFilter,
             placed, opc>>

mergeVars == <<videos, transition, transitionDuration, durations, args, outcome, mpc>>

cacheVars == <<cacheFiles, writers, gpc, calling, calls, returned, downloaded>>

downloadVars == <<pendingDownloads, arrived, inputPaths, probedDurations, engineInputs, dpc>>

healthVars == <<redisServer, attempt, waited, hpc>>

\* What the actions of one part leave alone
nonCapVars == <<jobVars, fitVars, ovlVars, mergeVars, cacheVars, downloadVars, healthVars>>
nonJobVars == <<capVars, fitVars, ovlVars, mergeVars, cacheVars, downloadVars, healthVars>>
nonFitVars == <<capVars, jobVars, ovlVars, mergeVars, cacheVars, downloadVars, healthVars>>
nonOvlVars == <<capVars, jobVars, fitVars, mergeVars, cacheVars, downloadVars, healthVars>>
nonMergeVars == <<capVars, jobVars, fitVars, ovlVars, cacheVars, downloadVars, healthVars>>

nonCacheVars == <<capVars, jobVars, fitVars, ovlVars, mergeVars, downloadVars, healthVars>>

nonDownloadVars == <<capVars, jobVars, fitVars, ovlVars, mergeVars, cacheVars, healthVars>>

nonHealthVars == <<capVars, jobVars, fitVars, ovlVars, mergeVars, cacheVars, downloadVars>>

vars == <<capVars, jobVars, fitVars, ovlVars, mergeVars, cacheVars, downloadVars, healthVars>>

-----------------------------------------------------------------------------
(* Bounds *)

MaxLen == 3     \* longest timestamp list explored
MaxTime == 4    \* largest start/end value explored, in tenths of a second
MaxWordsOpt == 3 \* largest options.wordsPerSegment explored
MaxRequests == 2 \* HTTP requests served in one behaviour
MaxDim == 4      \* largest width/height explored for a frame, in pixels
MaxClips == 3    \* longest clip list of a merge job
MaxDur == 3      \* longest downloaded clip, in seconds

-----------------------------------------------------------------------------
(* Program constants *)

DefaultWordsPerSegment == 3   \* options.wordsPerSegment || 3
PauseThreshold == 3           \* 0.3 s, in tenths of a second
Attempts == 3                 \* defaultJobOptions.attempts
BackoffDelay == 1000          \* defaultJobOptions.backoff.delay (ms)

-----------------------------------------------------------------------------
(* Caption timing compiler *)

Times == 0..MaxTime

\* WordTimestamp lists with end >= start and non-decreasing starts (the data
\* model's invariant); words may still overlap.  The word text is stood for
\* by the word's position in the request, so every word is distinguishable.
TimestampLists ==
    UNION { { [i \in 1..n |-> [word |-> i, start |-> f[i][1], end |-> f[i][2]]] :
              f \in {g \in [1..n -> {p \in Times \X Times : p[1] <= p[2]}] :
                       \A i \in 1..(n - 1) : g[i][1] <= g[i + 1][1]} } :
            n \in 0..MaxLen }

\* const wordsPerSegment = options.wordsPerSegment || 3
EffectiveWordsPerSegment(opt) == IF opt = 0 THEN DefaultWordsPerSegment ELSE opt

\* const segmentFull = currentSegment.length >= maxWordsPerSegment
SegmentFullOffByOne(cur, maxW) == Len(cur) > maxW
SegmentFull(cur, maxW) == Len(cur) >= maxW

\* const isLastWord = index === timestamps.length - 1
IsLastWord(ts, i) == i = Len(ts)

\* const nextWordHasGap = !isLastWord && timestamps[index+1].start - timestamp.end > 0.3
NextWordHasGapInclusive(ts, i) ==
    ~IsLastWord(ts, i) /\ ts[i + 1].start - ts[i].end >= PauseThreshold
NextWordHasGap(ts, i) ==
    ~IsLastWord(ts, i) /\ ts[i + 1].start - ts[i].end > PauseThreshold

\* One iteration of timestamps.forEach in segmentWords, on the loop state
\* st = [currentSegment, segmentStartTime, segments].
SegmentIteration(st, ts, i, maxW) ==
    LET startT == IF Len(st.currentSegment) = 0
                  THEN ts[i].start ELSE st.segmentStartTime
        cur == Append(st.currentSegment,
                      [word |-> ts[i].word, start |-> ts[i].start, end |-> ts[i].end])
    IN  IF IsLastWord(ts, i) \/ SegmentFull(cur, maxW) \/ NextWordHasGap(ts, i)
        THEN [currentSegment |-> <<>>,
              segmentStartTime |-> startT,
              segments |-> Append(st.segments,
                                  [startTime |-> startT,
                                   endTime |-> cur[Len(cur)].end,
                                   words |-> cur])]
        ELSE [currentSegment |-> cur,
              segmentStartTime |-> startT,
              segments |-> st.segments]

RECURSIVE SegmentLoop(_, _, _, _)
SegmentLoop(st, ts, i, maxW) ==
    IF i > Len(ts) THEN st
    ELSE SegmentLoop(SegmentIteration(st, ts, i, maxW), ts, i + 1, maxW)

\* A loop that starts at the second timestamp
SegmentWordsFromSecond(ts, maxW) ==
    SegmentLoop([currentSegment |-> <<>>, segmentStartTime |-> 0, segments |-> <<>>],
                ts, 2, maxW).segments

\* segmentWords(timestamps, maxWordsPerSegment) as a function of its input
SegmentWords(ts, maxW) ==
    SegmentLoop([currentSegment |-> <<>>, segmentStartTime |-> 0, segments |-> <<>>],
                ts, 1, maxW).segments

\* Math.round(seconds * 1000)
RoundMs(t) == t * 100

\* formatASSTime: H:MM:SS.CC
FormatASSTime(t) ==
    [hours |-> t \div 36000,
     mins  |-> (t % 36000) \div 600,
     secs  |-> (t % 600) \div 10,
     centiseconds |-> (t % 10) * 10]

\* The animation tag written in front of one word of a segment:
\* {\1c<primary>&\t(hs,hs,\1c<highlight>&)\t(he,he,\1c<primary>&)}word
AnimationTag(segment, k) ==
    LET wordInfo == segment.words[k]
        highlightStartMs == RoundMs(wordInfo.start)
        highlightEndMs == RoundMs(wordInfo.end)
    IN  [initial |-> "primaryColor",
         transitions |-> << [t1 |-> highlightStartMs, t2 |-> highlightStartMs,
                             color |-> "highlightColor"],
                            [t1 |-> highlightEndMs, t2 |-> highlightEndMs,
                             color |-> "primaryColor"] >>,
         word |-> wordInfo.word]

\* One "Dialogue: 0,start,end,Default,,0,0,0,,text" line
DialogueLine(segment) ==
    [start |-> FormatASSTime(segment.startTime),
     end |-> FormatASSTime(segment.endTime),
     text |-> [k \in 1..Len(segment.words) |-> AnimationTag(segment, k)]]

\* The [Events] entries generateASS appends for a list of segments
DialogueLines(segs) == [s \in 1..Len(segs) |-> DialogueLine(segs[s])]

\* generateASS(timestamps, options) as a function: the timed entries
GenerateASS(ts, opt) == DialogueLines(SegmentWords(ts, EffectiveWordsPerSegment(opt)))

\* The pipeline at rest, before any request
NoResult == [success |-> FALSE, outputUrl |-> {}, outputPath |-> {}, error |-> <<>>]
NoResponse == [status |-> 0, url |-> {}, error |-> <<>>]
NoRequest == [route |-> "none", body |-> [kind |-> "none"]]
NoJob == [id |-> 0, name |-> "none", data |-> [kind |-> "none"], attemptsMade |-> 0,
          state |-> "none", delay |-> 0, returnvalue |-> NoResult, failedReason |-> <<>>]

JobIdle ==
    /\ env = [server |-> "s3", worker |-> "s3"]
    /\ requests = 0
    /\ request = NoRequest
    /\ nextJobId = 1
    /\ job = NoJob
    /\ ppc = "idle"
    /\ stages = <<>>
    /\ thrown = <<>>
    /\ tempDirs = {}
    /\ result = NoResult
    /\ response = NoResponse
    /\ inputs = <<>>
    /\ filterComplex = <<>>
    /\ captions = <<>>
    /\ outputFile = "none"
    /\ maps = <<>>

\* The caption compiler, not in use
CapIdle ==
    /\ timestamps = <<>>
    /\ wordsPerSegment = 0
    /\ segments = <<>>
    /\ ass = <<>>
    /\ cpc = "unused"

NoSize == [w |-> 0, h |-> 0]
NoCrop == [w |-> 0, h |-> 0, x |-> 0, y |-> 0, ok |-> FALSE]

\* The background-fit chain, not in use
FitIdle ==
    /\ source = NoSize
    /\ target = NoSize
    /\ scaled = NoSize
    /\ cropped = NoCrop
    /\ fpc = "unused"

NoOverlayJob == [overlayScale |-> 0, overlayPosition |-> "", overlayMarginX |-> 0,
                 overlayMarginY |-> 0]
NoPlace == [x |-> 0, y |-> 0]

\* The overlay sizing and placement, not in use
OvlIdle ==
    /\ overlayJob = NoOverlayJob
    /\ videoSize = NoSize
    /\ ovlSize = NoSize
    /\ targetSize = NoSize
    /\ position = <<>>
    /\ overlayFilter = <<>>
    /\ placed = NoPlace
    /\ opc = "unused"

NoArgs == [inputs |-> <<>>, filterParts |-> <<>>, maps |-> <<>>]
NoOutcome == [accepted |-> FALSE, duration |-> 0]

\* The merge argument builder, not in use
MergeIdle ==
    /\ videos = <<>>
    /\ transition = ""
    /\ transitionDuration = 0
    /\ durations = <<>>
    /\ args = NoArgs
    /\ outcome = NoOutcome
    /\ mpc = "unused"

\* The background cache, not in use
CacheIdle ==
    /\ cacheFiles = <<>>
    /\ writers = <<>>
    /\ gpc = <<>>
    /\ calling = <<>>
    /\ calls = <<>>
    /\ returned = <<>>
    /\ downloaded = {}

\* The merge downloads, not in use
DownloadIdle ==
    /\ pendingDownloads = {}
    /\ arrived = <<>>
    /\ inputPaths = <<>>
    /\ probedDurations = <<>>
    /\ engineInputs = <<>>
    /\ dpc = "unused"

\* The Redis health check, not in use
HealthIdle ==
    /\ redisServer = "unused"
    /\ attempt = 0
    /\ waited = <<>>
    /\ hpc = "unused"

CapInit ==
    /\ timestamps \in TimestampLists
    /\ wordsPerSegment \in 0..MaxWordsOpt
    /\ segments = <<>>
    /\ ass = <<>>
    /\ cpc = "start"
    /\ JobIdle
    /\ FitIdle
    /\ OvlIdle
    /\ MergeIdle
    /\ CacheIdle
    /\ DownloadIdle
    /\ HealthIdle

\* const segments = segmentWords(timestamps, wordsPerSegment)
CallSegmentWords ==
    /\ cpc = "start"
    /\ segments' = SegmentWords(timestamps, EffectiveWordsPerSegment(wordsPerSegment))
    /\ cpc' = "emit"
    /\ UNCHANGED <<timestamps, wordsPerSegment, ass>>
    /\ UNCHANGED nonCapVars

\* segments.forEach((segment) => { ass += `Dialogue: ...` }); return ass
EmitDialogues ==
    /\ cpc = "emit"
    /\ ass' = DialogueLines(segments)
    /\ cpc' = "done"
    /\ UNCHANGED <<timestamps, wordsPerSegment, segments>>
    /\ UNCHANGED nonCapVars

CapNext == CallSegmentWords \/ EmitDialogues

SpecCaption == CapInit /\ [][CapNext]_vars

-----------------------------------------------------------------------------
(* Compose filter graph (processVideoCompose, step 5) *)

\* A stream of an input file, "[i:v]" / "[i:a]", and a named label "[bg]"
In(i, stream) == [input |-> i, stream |-> stream, label |-> ""]
L(name) == [input |-> -1, stream |-> "", label |-> name]
Stage(ins, op, out) == [in |-> ins, op |-> op, out |-> out]

\* An image input index that does not count the music input
WatermarkInputIndexAfterAudio(d) == IF d.watermarkUrl THEN 2 ELSE -1

\* let currentInputIndex = 2; musicInputIndex = currentInputIndex++ ...
MusicInputIndex(d) == IF d.musicUrl THEN 2 ELSE -1
WatermarkInputIndex(d) ==
    LET currentInputIndex == IF d.musicUrl THEN 3 ELSE 2
    IN  IF d.watermarkUrl THEN currentInputIndex ELSE -1

\* const inputs = ['-i', backgroundPath, '-i', audioPath, (music)?, (watermark)?]
ComposeInputs(d) ==
    <<"background", "audio">>
    \o (IF d.musicUrl THEN <<"music">> ELSE <<>>)
    \o (IF d.watermarkUrl THEN <<"watermark">> ELSE <<>>)

\* Audio mixing (if music provided)
AudioMixStages(d) ==
    IF d.musicUrl
    THEN << Stage(<<In(1, "a")>>, "volume", L("tts")),
            Stage(<<In(MusicInputIndex(d), "a")>>, "volume", L("music")),
            Stage(<<L("tts"), L("music")>>, "amix", L("audio")) >>
    ELSE <<>>

\* [0:v]scale=W:H:force_original_aspect_ratio=increase,crop=W:H,trim=duration=D[bg]
BackgroundFitStage == << Stage(<<In(0, "v")>>, "scale,crop,trim", L("bg")) >>

\* watermarkText is z.string().optional(): <<>> when the field is absent, else
\* the one string given (the empty string passes the schema)
TextGiven(d) == d.watermarkText # <<>>

\* const useTextWatermark = !!watermarkText  (the empty string is falsy)
UseTextWatermarkUnlessUrl(d) ==
    TextGiven(d) /\ d.watermarkText[1] # "" /\ ~d.watermarkUrl
UseTextWatermark(d) == TextGiven(d) /\ d.watermarkText[1] # ""
\* const useImageWatermark = !useTextWatermark && !!watermarkUrl
UseImageWatermark(d) == ~UseTextWatermark(d) /\ d.watermarkUrl

\* The text / image / no-watermark branches that end the video chain
VideoChainStages(d) ==
    IF UseTextWatermark(d)
    THEN IF Len(d.wordTimestamps) > 0
         THEN << Stage(<<L("bg")>>, "ass", L("captioned")),
                 Stage(<<L("captioned")>>, "drawtext", L("final")) >>
         ELSE << Stage(<<L("bg")>>, "drawtext", L("final")) >>
    ELSE IF UseImageWatermark(d)
    THEN << Stage(<<In(WatermarkInputIndex(d), "v")>>, "scale,format,colorchannelmixer", L("logo")),
            Stage(<<L("bg"), L("logo")>>, "overlay", L("watermarked")),
            Stage(<<L("watermarked")>>, "ass", L("final")) >>
    ELSE << Stage(<<L("bg")>>, "ass", L("final")) >>

\* A -map list that names [audio] whether or not music is mixed
ComposeMapsAlwaysMixed(d) == << L("final"), L("audio") >>

\* const audioSource = musicUrl ? '[audio]' : '1:a'; '-map', '[final]', '-map', audioSource
ComposeMaps(d) == << L("final"), IF d.musicUrl THEN L("audio") ELSE In(1, "a") >>

\* let filterComplex = '' ... : the whole graph, in the order it is written
ComposeFilterComplex(d) == AudioMixStages(d) \o BackgroundFitStage \o VideoChainStages(d)

-----------------------------------------------------------------------------
(* Background fit, as the engine evaluates the stage the compose graph emits:  *)
(* [0:v]scale=W:H:force_original_aspect_ratio=increase,crop=W:H,trim=...[bg]   *)

\* a * b / c rounded to the nearest integer (halves away from zero), a,b,c > 0
RoundDiv(a, b, c) == (2 * a * b + c) \div (2 * c)

Sizes == [w : 1..MaxDim, h : 1..MaxDim]

\* scale=W:H:force_original_aspect_ratio=decrease (the letterbox fit of merge):
\* the frame is shrunk where needed to keep the source aspect ratio
ScaleDecrease(src, tgt) ==
    LET tmpW == RoundDiv(tgt.h, src.w, src.h)
        tmpH == RoundDiv(tgt.w, src.h, src.w)
    IN  [w |-> IF tmpW < tgt.w THEN tmpW ELSE tgt.w,
         h |-> IF tmpH < tgt.h THEN tmpH ELSE tgt.h]

\* scale=W:H:force_original_aspect_ratio=increase: the frame is enlarged where
\* needed to keep the source aspect ratio
ScaleIncrease(src, tgt) ==
    LET tmpW == RoundDiv(tgt.h, src.w, src.h)
        tmpH == RoundDiv(tgt.w, src.h, src.w)
    IN  [w |-> IF tmpW > tgt.w THEN tmpW ELSE tgt.w,
         h |-> IF tmpH > tgt.h THEN tmpH ELSE tgt.h]

\* crop=W:H: a centred W x H window; the engine rejects a window larger than
\* the frame it is cut from
Crop(frame, tgt) ==
    [w |-> tgt.w, h |-> tgt.h,
     x |-> (frame.w - tgt.w) \div 2,
     y |-> (frame.h - tgt.h) \div 2,
     ok |-> tgt.w <= frame.w /\ tgt.h <= frame.h]

FitInit ==
    /\ source \in Sizes
    /\ target \in Sizes
    /\ scaled = NoSize
    /\ cropped = NoCrop
    /\ fpc = "scale"
    /\ CapIdle
    /\ JobIdle
    /\ OvlIdle
    /\ MergeIdle
    /\ CacheIdle
    /\ DownloadIdle
    /\ HealthIdle

FitScale ==
    /\ fpc = "scale"
    /\ scaled' = ScaleIncrease(source, target)
    /\ fpc' = "crop"
    /\ UNCHANGED <<source, target, cropped>>
    /\ UNCHANGED nonFitVars

FitCrop ==
    /\ fpc = "crop"
    /\ cropped' = Crop(scaled, target)
    /\ fpc' = "done"
    /\ UNCHANGED <<source, target, scaled>>
    /\ UNCHANGED nonFitVars

FitNext == FitScale \/ FitCrop

SpecFit == FitInit /\ [][FitNext]_vars

-----------------------------------------------------------------------------
(* Overlay sizing and placement (processVideoOverlay steps 3-4 and            *)
(* getOverlayPosition).  overlayScale and the margins are held in hundredths: *)
(* 22 is 0.22, 3 is 0.03, 2000 is 20; engine coordinates are in hundredths of *)
(* a pixel.                                                                    *)

OverlayPositions == {"top-right", "top-left", "bottom-right", "bottom-left"}

\* overlayScale: z.number().min(0.01).max(1); margins: z.number().min(0).max(1000)
OverlayScales == {22, 50, 100}
OverlayMargins == {0, 50, 100, 2000}

OverlayJobs ==
    [overlayScale : OverlayScales, overlayPosition : OverlayPositions,
     overlayMarginX : OverlayMargins, overlayMarginY : OverlayMargins]

\* Frame sizes the probes may report
VideoSizes == Sizes \cup {[w |-> 1280, h |-> 720]}
OvlSizes == Sizes \cup {[w |-> 500, h |-> 200]}

\* const targetWidth = Math.round(videoWidth * overlayScale)
TargetWidthOfOverlay(videoWidth, ovlWidth, overlayScale) ==
    RoundDiv(ovlWidth, overlayScale, 100)
TargetWidth(videoWidth, ovlWidth, overlayScale) ==
    RoundDiv(videoWidth, overlayScale, 100)

\* const targetHeight = Math.round((targetWidth * ovlHeight) / ovlWidth)
TargetHeight(targetWidth, ovl) == RoundDiv(targetWidth, ovl.h, ovl.w)

\* const mx = marginX < 1 ? `W*${marginX}` : `${marginX}` (and my with H)
MarginExprPixelsOnly(dimension, margin) == [times |-> "", value |-> margin]
MarginExpr(dimension, margin) ==
    IF margin < 100 THEN [times |-> dimension, value |-> margin]
    ELSE [times |-> "", value |-> margin]

\* One coordinate expression: `${m}` (from = <<>>) or `W-w-${m}` (from = <<"W", "w">>)
Coord(from, m) == [from |-> from, margin |-> m]

\* getOverlayPosition(position, marginX, marginY)
GetOverlayPosition(pos, marginX, marginY) ==
    LET mx == MarginExpr("W", marginX)
        my == MarginExpr("H", marginY)
        positions ==
            [p \in OverlayPositions |->
                CASE p = "top-left"     -> [x |-> Coord(<<>>, mx), y |-> Coord(<<>>, my)]
                  [] p = "top-right"    -> [x |-> Coord(<<"W", "w">>, mx), y |-> Coord(<<>>, my)]
                  [] p = "bottom-left"  -> [x |-> Coord(<<>>, mx), y |-> Coord(<<"H", "h">>, my)]
                  [] p = "bottom-right" -> [x |-> Coord(<<"W", "w">>, mx),
                                            y |-> Coord(<<"H", "h">>, my)]]
    IN  positions[pos]

\* The overlay filter's variables: W, H main input, w, h overlay input
OverlayVariable(name, main, over) ==
    CASE name = "W" -> main.w
      [] name = "H" -> main.h
      [] name = "w" -> over.w
      [] name = "h" -> over.h

\* Value of a margin expression, in hundredths of a pixel
EvalMargin(m, main, over) ==
    IF m.times = "" THEN m.value ELSE OverlayVariable(m.times, main, over) * m.value

\* Value of a coordinate expression, in hundredths of a pixel
EvalCoord(c, main, over) ==
    IF c.from = <<>>
    THEN EvalMargin(c.margin, main, over)
    ELSE (OverlayVariable(c.from[1], main, over) - OverlayVariable(c.from[2], main, over)) * 100
         - EvalMargin(c.margin, main, over)

OvlInit ==
    /\ overlayJob \in OverlayJobs
    /\ videoSize = NoSize
    /\ ovlSize = NoSize
    /\ targetSize = NoSize
    /\ position = <<>>
    /\ overlayFilter = <<>>
    /\ placed = NoPlace
    /\ opc = "probeVideo"
    /\ CapIdle
    /\ JobIdle
    /\ FitIdle
    /\ MergeIdle
    /\ CacheIdle
    /\ DownloadIdle
    /\ HealthIdle

\* const [videoWidth, videoHeight] = probeOut.trim().split(',').map(Number)
ProbeVideo ==
    /\ opc = "probeVideo"
    /\ videoSize' \in VideoSizes
    /\ opc' = "probeOverlay"
    /\ UNCHANGED <<overlayJob, ovlSize, targetSize, position, overlayFilter, placed>>
    /\ UNCHANGED nonOvlVars

\* const [ovlWidth, ovlHeight] = overlayProbe...; targetWidth; targetHeight
ProbeOverlayAndSize ==
    /\ opc = "probeOverlay"
    /\ \E o \in OvlSizes :
        /\ ovlSize' = o
        /\ LET targetWidth == TargetWidth(videoSize.w, o.w, overlayJob.overlayScale)
           IN  targetSize' = [w |-> targetWidth, h |-> TargetHeight(targetWidth, o)]
    /\ opc' = "filter"
    /\ UNCHANGED <<overlayJob, videoSize, position, overlayFilter, placed>>
    /\ UNCHANGED nonOvlVars

\* const position = getOverlayPosition(...);
\* const filterComplex = `[1:v]scale=${targetWidth}:${targetHeight}[ovl];[0:v][ovl]overlay=${position}`
BuildOverlayFilter ==
    /\ opc = "filter"
    /\ LET pos == GetOverlayPosition(overlayJob.overlayPosition, overlayJob.overlayMarginX,
                                     overlayJob.overlayMarginY)
       IN  /\ position' = pos
           /\ overlayFilter' =
                << [in |-> <<In(1, "v")>>, op |-> "scale", w |-> targetSize.w,
                    h |-> targetSize.h, out |-> L("ovl")],
                   [in |-> <<In(0, "v"), L("ovl")>>, op |-> "overlay", at |-> pos] >>
    /\ opc' = "ffmpeg"
    /\ UNCHANGED <<overlayJob, videoSize, ovlSize, targetSize, placed>>
    /\ UNCHANGED nonOvlVars

\* The engine runs the filter: the overlay input has the size the scale stage
\* gave it, the main input the probed video size
EngineOverlay ==
    /\ opc = "ffmpeg"
    /\ LET over == [w |-> overlayFilter[1].w, h |-> overlayFilter[1].h]
           at == overlayFilter[2].at
       IN  placed' = [x |-> EvalCoord(at.x, videoSize, over),
                      y |-> EvalCoord(at.y, videoSize, over)]
    /\ opc' = "done"
    /\ UNCHANGED <<overlayJob, videoSize, ovlSize, targetSize, position, overlayFilter>>
    /\ UNCHANGED nonOvlVars

OvlNext == ProbeVideo \/ ProbeOverlayAndSize \/ BuildOverlayFilter \/ EngineOverlay

SpecOverlay == OvlInit /\ [][OvlNext]_vars

-----------------------------------------------------------------------------
(* Merge argument builder (processVideoMerge, steps 2 to 4).  Times are whole *)
(* seconds; what is printed with toFixed(3) is held in milliseconds.  An       *)
(* optional number is <<>> when undefined and <<n>> when given.                *)

Min(a, b) == IF a < b THEN a ELSE b

\* x || fallback on an optional number: undefined and 0 are falsy
OrElse(x, fallback) == IF x = <<>> \/ x[1] = 0 THEN fallback ELSE x[1]

\* const effectiveDuration = Math.min(end, fullDuration) - start
EffectiveDurationUntrimmed(video) == video.fullDuration
EffectiveDuration(video) ==
    LET start == OrElse(video.start, 0)
        end == OrElse(video.end, video.fullDuration)
    IN  Min(end, video.fullDuration) - start

\* Clips of a merge job: the length of the downloaded file and trim?.start,
\* trim?.end, with the trim window inside the file
Clips ==
    {v \in [fullDuration : 1..MaxDur, start : {<<>>, <<1>>}, end : {<<>>, <<2>>}] :
        EffectiveDuration(v) > 0}

ExampleClips ==
    << [fullDuration |-> 10, start |-> <<>>, end |-> <<>>],
       [fullDuration |-> 8, start |-> <<>>, end |-> <<>>],
       [fullDuration |-> 12, start |-> <<>>, end |-> <<>>] >>

ClipLists == UNION {[1..n -> Clips] : n \in 1..MaxClips} \cup {ExampleClips}

Transitions == {"none", "crossfade"}
TransitionDurations == {1}

\* cumulativeOffset.toFixed(3)
ToFixed3(seconds) == seconds * 1000

\* inputs.push(...ssArgs, ...toArgs, '-i', inputPaths[i]): input i (from 0)
\* with the file it names
MergeInput(vs, i) ==
    LET v == vs[i + 1]
    IN  [ss |-> IF v.start # <<>> /\ v.start[1] # 0 THEN v.start ELSE <<>>,
         to |-> IF v.end # <<>> /\ v.end[1] # 0 THEN v.end ELSE <<>>,
         file |-> [index |-> i, fullDuration |-> v.fullDuration]]

MergeInputs(vs) == [k \in 1..Len(vs) |-> MergeInput(vs, k - 1)]

\* "[i:v]" / "[i:a]" and a label "[v0]", "[xv1]", "[vout]" of the merge graph
MIn(i, stream) == [input |-> i, stream |-> stream, label |-> <<>>]
ML(name) == [input |-> -1, stream |-> "", label |-> name]

\* A stage of the merge graph
MStage(ins, op, param, out) == [in |-> ins, op |-> op, param |-> param, out |-> out]

\* The two stages pushed for every input, video then audio
NormaliseStages(n, videoOp, audioOp) ==
    [k \in 1..(2 * n) |->
        LET i == (k - 1) \div 2
        IN  IF k % 2 = 1
            THEN MStage(<<MIn(i, "v")>>, videoOp, <<>>, ML(<<"v", i>>))
            ELSE MStage(<<MIn(i, "a")>>, audioOp, <<>>, ML(<<"a", i>>))]

\* transition === 'none': scale+pad every input, then concat video and audio
HardCutFilterParts(n) ==
    NormaliseStages(n, "scale,pad", "aformat")
    \o << MStage([k \in 1..n |-> ML(<<"v", k - 1>>)], "concat", <<>>, ML(<<"vout">>)),
          MStage([k \in 1..n |-> ML(<<"a", k - 1>>)], "concat", <<>>, ML(<<"aout">>)) >>

\* cumulativeOffset after the loop body for i: += durations[i - 1] - transitionDuration
RECURSIVE CumulativeOffsetNoTransition(_, _, _)
CumulativeOffsetNoTransition(ds, t, i) ==
    IF i = 0 THEN 0 ELSE CumulativeOffsetNoTransition(ds, t, i - 1) + ds[i]
RECURSIVE CumulativeOffset(_, _, _)
CumulativeOffset(ds, t, i) ==
    IF i = 0 THEN 0 ELSE CumulativeOffset(ds, t, i - 1) + (ds[i] - t)

\* const outputLabel = i === inputPaths.length - 1 ? 'vout' : `xv${i}`
ChainLabel(n, i, last, prefix) == IF i = n - 1 THEN ML(<<last>>) ELSE ML(<<prefix, i>>)

\* The chained xfade stages, i = 1 .. n-1
XfadeStages(n, ds, t) ==
    [i \in 1..(n - 1) |->
        MStage(<< IF i = 1 THEN ML(<<"v", 0>>) ELSE ChainLabel(n, i - 1, "vout", "xv"),
                  ML(<<"v", i>>) >>,
               "xfade",
               <<t, ToFixed3(CumulativeOffset(ds, t, i))>>,
               ChainLabel(n, i, "vout", "xv"))]

\* The chained acrossfade stages, i = 1 .. n-1
AcrossfadeStages(n, t) ==
    [i \in 1..(n - 1) |->
        MStage(<< IF i = 1 THEN ML(<<"a", 0>>) ELSE ChainLabel(n, i - 1, "aout", "xa"),
                  ML(<<"a", i>>) >>,
               "acrossfade", <<t>>, ChainLabel(n, i, "aout", "xa"))]

\* transition mode: normalise every input, then the two chains
CrossfadeFilterParts(n, ds, t) ==
    NormaliseStages(n, "setpts,scale,pad,format,fps,settb", "aformat,asetpts")
    \o XfadeStages(n, ds, t) \o AcrossfadeStages(n, t)

\* args = [...inputs, '-filter_complex', filterComplex, '-map', '[vout]', '-map', '[aout]', ...]
MergeArgs(vs, mode, ds, t) ==
    [inputs |-> MergeInputs(vs),
     filterParts |-> IF mode = "none" THEN HardCutFilterParts(Len(vs))
                     ELSE CrossfadeFilterParts(Len(vs), ds, t),
     maps |-> <<ML(<<"vout">>), ML(<<"aout">>)>>]

\* ---- the engine's reading of the argument list ----

\* Length of an input as cut by -ss / -to, in seconds
InputLength(inp) ==
    LET from == IF inp.ss = <<>> THEN 0 ELSE inp.ss[1]
        upto == IF inp.to = <<>> THEN inp.file.fullDuration
                ELSE Min(inp.to[1], inp.file.fullDuration)
    IN  IF upto > from THEN upto - from ELSE 0

\* A stage input is an existing input stream or a label some stage produces;
\* every mapped label must be produced by a stage
EngineAccepts(a) ==
    /\ \A k \in 1..Len(a.filterParts) : \A r \in 1..Len(a.filterParts[k].in) :
          LET ref == a.filterParts[k].in[r]
          IN  IF ref.input >= 0 THEN ref.input < Len(a.inputs)
              ELSE \E j \in 1..Len(a.filterParts) : j # k /\ a.filterParts[j].out = ref
    /\ \A m \in 1..Len(a.maps) :
          \E k \in 1..Len(a.filterParts) : a.filterParts[k].out = a.maps[m]

\* Length of a stream of the graph, in milliseconds: xfade ends at its offset
\* plus the second input, acrossfade overlaps its inputs by d, concat appends
RECURSIVE StreamLength(_, _)
RECURSIVE SumLengths(_, _, _)
SumLengths(a, refs, r) ==
    IF r = 0 THEN 0 ELSE SumLengths(a, refs, r - 1) + StreamLength(a, refs[r])
StreamLength(a, ref) ==
    IF ref.input >= 0 THEN InputLength(a.inputs[ref.input + 1]) * 1000
    ELSE LET st == a.filterParts[CHOOSE k \in 1..Len(a.filterParts) :
                                    a.filterParts[k].out = ref]
         IN  CASE st.op = "xfade" -> st.param[2] + StreamLength(a, st.in[2])
               [] st.op = "acrossfade" ->
                    StreamLength(a, st.in[1]) + StreamLength(a, st.in[2]) - st.param[1] * 1000
               [] st.op = "concat" -> SumLengths(a, st.in, Len(st.in))
               [] OTHER -> StreamLength(a, st.in[1])

MergeInit ==
    /\ videos \in ClipLists
    /\ transition \in Transitions
    /\ transitionDuration \in TransitionDurations
    /\ durations = <<>>
    /\ args = NoArgs
    /\ outcome = NoOutcome
    /\ mpc = "probe"
    /\ CapIdle
    /\ JobIdle
    /\ FitIdle
    /\ OvlIdle
    /\ CacheIdle
    /\ DownloadIdle
    /\ HealthIdle

\* 2. Probe each video for duration: durations.push(effectiveDuration)
ProbeClipDurations ==
    /\ mpc = "probe"
    /\ durations' = [i \in 1..Len(videos) |-> EffectiveDuration(videos[i])]
    /\ mpc' = "build"
    /\ UNCHANGED <<videos, transition, transitionDuration, args, outcome>>
    /\ UNCHANGED nonMergeVars

\* 3. Build FFmpeg command based on transition type
BuildMergeArgs ==
    /\ mpc = "build"
    /\ args' = MergeArgs(videos, transition, durations, transitionDuration)
    /\ mpc' = "ffmpeg"
    /\ UNCHANGED <<videos, transition, transitionDuration, durations, outcome>>
    /\ UNCHANGED nonMergeVars

\* 4. Execute FFmpeg
EngineMerge ==
    /\ mpc = "ffmpeg"
    /\ outcome' = IF EngineAccepts(args)
                  THEN [accepted |-> TRUE, duration |-> StreamLength(args, args.maps[1])]
                  ELSE NoOutcome
    /\ mpc' = "done"
    /\ UNCHANGED <<videos, transition, transitionDuration, durations, args>>
    /\ UNCHANGED nonMergeVars

MergeNext == ProbeClipDurations \/ BuildMergeArgs \/ EngineMerge

SpecMerge == MergeInit /\ [][MergeNext]_vars

-----------------------------------------------------------------------------
(* Requests, queue and worker *)

StorageModes == {"s3", "stateless"}

\* Word timestamps carried by the compose requests explored here
ComposeTimestampLists ==
    { <<>>,
      << [word |-> 1, start |-> 0, end |-> 2], [word |-> 2, start |-> 2, end |-> 4] >> }

ComposeData ==
    [kind : {"compose"}, musicUrl : BOOLEAN,
     watermarkText : {<<>>, <<"">>, <<"vicsee.com">>},
     watermarkUrl : BOOLEAN, wordTimestamps : ComposeTimestampLists]

\* overlayAsset: "" when absent; assets/overlays holds vicsee.png only
BundledAssets == {"vicsee"}
OverlayData ==
    [kind : {"overlay"}, overlayAsset : {"", "vicsee", "missing"}, overlayUrl : BOOLEAN]

MergeData == [kind : {"merge"}, transition : {"none", "crossfade"}]

ImageData == [kind : {"image"}]

\* A request may arrive when none is being served
CanReceive ==
    /\ requests < MaxRequests
    /\ ppc = "idle"
    /\ job.state = "none" \/ response.status # 0

\* addJob(name, data): queue.add gives the job the next id
AddJob(name, data) ==
    /\ job' = [NoJob EXCEPT !.id = nextJobId, !.name = name, !.data = data,
                           !.state = "waiting"]
    /\ nextJobId' = nextJobId + 1
    /\ response' = NoResponse

\* The early return of a route: answered without adding a job
RejectRequest(error) ==
    /\ response' = [status |-> 400, url |-> {}, error |-> <<error>>]
    /\ job' = NoJob
    /\ UNCHANGED nextJobId

\* await job.waitUntilFinished(queueEvents); validateJobResult; the two returns
\* and the catch of a route handler
ResponseFor(j, defaultError) ==
    IF j.state = "completed"
    THEN IF ~j.returnvalue.success \/ j.returnvalue.outputUrl = {}
         THEN [status |-> 400, url |-> {},
               error |-> IF j.returnvalue.error # <<>> THEN j.returnvalue.error
                         ELSE <<defaultError>>]
         ELSE [status |-> 200, url |-> j.returnvalue.outputUrl, error |-> <<>>]
    ELSE [status |-> 500, url |-> {}, error |-> j.failedReason]

Respond(name, defaultError) ==
    /\ job.name = name
    /\ job.state \in {"completed", "failed"}
    /\ response.status = 0
    /\ response' = ResponseFor(job, defaultError)
    /\ UNCHANGED <<env, requests, request, nextJobId, job, ppc, stages, thrown, tempDirs,
                   result, inputs, filterComplex, captions, outputFile, maps>>
    /\ UNCHANGED nonJobVars

NewRequest(route, body) ==
    /\ requests' = requests + 1
    /\ request' = [route |-> route, body |-> body]
    /\ UNCHANGED <<env, ppc, stages, thrown, tempDirs, result, inputs,
                   filterComplex, captions, outputFile, maps>>
    /\ UNCHANGED nonJobVars

\* composeVideoRoute, up to addJob
ComposeRouteStart ==
    /\ CanReceive
    /\ \E d \in ComposeData :
        /\ IF env.server # "s3"
           THEN RejectRequest("S3 mode required")
           ELSE AddJob("video:compose", d)
        /\ NewRequest("compose", d)

\* composeVideoRoute, from waitUntilFinished
ComposeRouteFinish == Respond("video:compose", "Video composition failed")

\* videoOverlayRoute, up to addJob
OverlayRouteStartUnchecked ==
    /\ CanReceive
    /\ \E d \in OverlayData :
        /\ IF env.server # "s3"
           THEN RejectRequest("S3 mode required")
           ELSE AddJob("video:overlay", d)
        /\ NewRequest("overlay", d)
OverlayRouteStart ==
    /\ CanReceive
    /\ \E d \in OverlayData :
        /\ IF env.server # "s3"
           THEN RejectRequest("S3 mode required")
           ELSE IF d.overlayAsset = "" /\ ~d.overlayUrl
           THEN RejectRequest("Either overlayAsset or overlayUrl must be provided")
           ELSE AddJob("video:overlay", d)
        /\ NewRequest("overlay", d)

\* videoOverlayRoute, from waitUntilFinished
OverlayRouteFinish == Respond("video:overlay", "Video overlay failed")

\* The merge route: enqueue, then await completion
MergeRouteStart ==
    /\ CanReceive
    /\ \E d \in MergeData : AddJob("video:merge", d) /\ NewRequest("merge", d)

MergeRouteFinish == Respond("video:merge", "Video merge failed")

\* A caller adding an image:jpg job and awaiting it
ImageJobStart ==
    /\ CanReceive
    /\ \E d \in ImageData : AddJob("image:jpg", d) /\ NewRequest("image", d)

ImageJobFinish == Respond("image:jpg", "Conversion failed")

\* The worker takes the waiting job and starts an attempt
WorkerTakeJob ==
    /\ job.state = "waiting"
    /\ ppc = "idle"
    /\ job' = [job EXCEPT !.state = "active", !.attemptsMade = @ + 1]
    /\ ppc' = "start"
    /\ stages' = <<>>
    /\ thrown' = <<>>
    /\ result' = NoResult
    /\ outputFile' = "none"
    /\ UNCHANGED <<env, requests, request, nextJobId, tempDirs, response, inputs,
                   filterComplex, captions, maps>>
    /\ UNCHANGED nonJobVars

\* The processor returned: the job completes with the returned value
WorkerJobCompleted ==
    /\ job.state = "active"
    /\ ppc = "returned"
    /\ job' = [job EXCEPT !.state = "completed", !.returnvalue = result]
    /\ ppc' = "idle"
    /\ UNCHANGED <<env, requests, request, nextJobId, stages, thrown, tempDirs, result,
                   response, inputs, filterComplex, captions, outputFile, maps>>
    /\ UNCHANGED nonJobVars

\* backoff: { type: 'exponential', delay: 1000 }
BackoffFor(attemptsMade) == BackoffDelay * 2 ^ (attemptsMade - 1)

\* The processor threw: retry after the backoff while attempts remain,
\* else the job fails with the last error
WorkerJobFailed ==
    /\ job.state = "active"
    /\ ppc = "thrown"
    /\ job' = IF job.attemptsMade < Attempts
              THEN [job EXCEPT !.state = "delayed", !.delay = BackoffFor(job.attemptsMade),
                               !.failedReason = thrown]
              ELSE [job EXCEPT !.state = "failed", !.failedReason = thrown]
    /\ ppc' = "idle"
    /\ UNCHANGED <<env, requests, request, nextJobId, stages, thrown, tempDirs, result,
                   response, inputs, filterComplex, captions, outputFile, maps>>
    /\ UNCHANGED nonJobVars

\* The backoff delay has passed: the job waits for a worker again
BackoffElapsed ==
    /\ job.state = "delayed"
    /\ job' = [job EXCEPT !.state = "waiting", !.delay = 0]
    /\ UNCHANGED <<env, requests, request, nextJobId, ppc, stages, thrown, tempDirs, result,
                   response, inputs, filterComplex, captions, outputFile, maps>>
    /\ UNCHANGED nonJobVars

-----------------------------------------------------------------------------
(* Processors (queue/video/processor.ts) *)

Active(name, at) == job.state = "active" /\ job.name = name /\ ppc = at

\* An awaited step completed
Advance(stage, next) ==
    /\ ppc' = next
    /\ stages' = Append(stages, stage)
    /\ UNCHANGED thrown

\* An awaited step rejected: control goes to the catch block
Throw(message) ==
    /\ ppc' = "catch"
    /\ thrown' = <<message>>
    /\ UNCHANGED stages

\* return { success: false, error: `Failed to ...: ${errorMessage}` }
FailureResultWithPath(id, message) ==
    [success |-> FALSE, outputUrl |-> {}, outputPath |-> {id}, error |-> message]
FailureResult(id, message) ==
    [success |-> FALSE, outputUrl |-> {}, outputPath |-> {}, error |-> message]

\* return { success: true, outputUrl: url }
UploadedResult(id) ==
    [success |-> TRUE, outputUrl |-> {id}, outputPath |-> {}, error |-> <<>>]

\* return { success: true, outputPath }
LocalResult(id) ==
    [success |-> TRUE, outputUrl |-> {}, outputPath |-> {id}, error |-> <<>>]

Return(r) ==
    /\ result' = r
    /\ ppc' = "returned"

\* await mkdir(jobDir, { recursive: true })
Mkdir(name, next) ==
    /\ Active(name, "start")
    /\ tempDirs' = tempDirs \cup {job.id}
    /\ Advance("mkdir", next)
    /\ UNCHANGED <<env, requests, request, nextJobId, job, result, response, inputs,
                   filterComplex, captions, outputFile, maps>>
    /\ UNCHANGED nonJobVars

\* An awaited external call (download, probe) that completes or rejects
ExternalStep(name, at, stage, next, failure) ==
    /\ Active(name, at)
    /\ \/ Advance(stage, next)
       \/ Throw(failure)
    /\ UNCHANGED <<env, requests, request, nextJobId, job, tempDirs, result, response,
                   inputs, filterComplex, captions, outputFile, maps>>
    /\ UNCHANGED nonJobVars

\* What an engine run that exits with code 0 can leave at outputPath
OutputFiles == {"written", "empty", "missing"}

\* await execFileAsync('ffmpeg', args, { timeout: PROCESSING_TIMEOUT })
\* It resolves whenever the engine exits with code 0, whatever the engine left
\* at outputPath; the processors do not look at the file afterwards.
ExecFFmpeg(name, next) ==
    /\ Active(name, "ffmpeg")
    /\ \/ /\ Advance("ffmpeg", next)
          /\ outputFile' \in OutputFiles
       \/ /\ Throw("ffmpeg exited with a non-zero code")
          /\ UNCHANGED outputFile
       \/ /\ Throw("ffmpeg timed out")
          /\ UNCHANGED outputFile
    /\ UNCHANGED <<env, requests, request, nextJobId, job, tempDirs, result, response,
                   inputs, filterComplex, captions, maps>>
    /\ UNCHANGED nonJobVars

\* if (env.STORAGE_MODE === 's3') { const { url } = await uploadToS3(...)
\* The upload reads outputPath, so it rejects when there is no file; an empty
\* file is uploaded like any other.
UploadToS3(name) ==
    /\ Active(name, "storage")
    /\ env.worker = "s3"
    /\ \/ /\ outputFile # "missing"
          /\ Advance("upload", "rm")
       \/ Throw("upload failed")
    /\ UNCHANGED <<env, requests, request, nextJobId, job, tempDirs, result, response,
                   inputs, filterComplex, captions, outputFile, maps>>
    /\ UNCHANGED nonJobVars

\* await rm(jobDir, { recursive: true, force: true }); return { success: true, outputUrl: url }
CleanupAndReturnUrl(name) ==
    /\ Active(name, "rm")
    /\ tempDirs' = tempDirs \ {job.id}
    /\ stages' = Append(stages, "rm")
    /\ Return(UploadedResult(job.id))
    /\ UNCHANGED <<env, requests, request, nextJobId, job, thrown, response, inputs,
                   filterComplex, captions, outputFile, maps>>
    /\ UNCHANGED nonJobVars

\* (STORAGE_MODE is not s3) return { success: true, outputPath }
ReturnLocalPath(name) ==
    /\ Active(name, "storage")
    /\ env.worker # "s3"
    /\ Return(LocalResult(job.id))
    /\ UNCHANGED <<env, requests, request, nextJobId, job, stages, thrown, tempDirs,
                   response, inputs, filterComplex, captions, outputFile, maps>>
    /\ UNCHANGED nonJobVars

\* catch (error) { await rm(jobDir, ...).catch(() => {}); return { success: false, error } }
CatchCleanupAndReturn(name, prefix) ==
    /\ Active(name, "catch")
    /\ tempDirs' = tempDirs \ {job.id}
    /\ Return(FailureResult(job.id, <<prefix>> \o thrown))
    /\ UNCHANGED <<env, requests, request, nextJobId, job, stages, thrown, response,
                   inputs, filterComplex, captions, outputFile, maps>>
    /\ UNCHANGED nonJobVars

\* ---- processVideoCompose ----
ComposeMkdirThenBackground == Mkdir("video:compose", "background")
ComposeMkdir == Mkdir("video:compose", "generateASS")

\* const assContent = generateASS(wordTimestamps, {...}); await writeFile(captionsPath, ...)
ComposeGenerateASS ==
    /\ Active("video:compose", "generateASS")
    /\ captions' = GenerateASS(job.data.wordTimestamps, 0)
    /\ Advance("generateASS", "background")
    /\ UNCHANGED <<env, requests, request, nextJobId, job, tempDirs, result, response,
                   inputs, filterComplex, outputFile, maps>>
    /\ UNCHANGED nonJobVars

\* const backgroundPath = await getCachedBackgroundVideo(backgroundId || 'default', backgroundUrl)
ComposeGetBackground ==
    ExternalStep("video:compose", "background", "background", "download",
                 "Failed to download background")

\* await Promise.all(downloads.map(({ url, path }) => downloadFile(url, path)))
ComposeDownloads ==
    ExternalStep("video:compose", "download", "download", "build", "Failed to download")

\* 5. Build FFmpeg arguments
ComposeBuildArgs ==
    /\ Active("video:compose", "build")
    /\ inputs' = ComposeInputs(job.data)
    /\ filterComplex' = ComposeFilterComplex(job.data)
    /\ maps' = ComposeMaps(job.data)
    /\ Advance("build", "ffmpeg")
    /\ UNCHANGED <<env, requests, request, nextJobId, job, tempDirs, result, response, captions,
                   outputFile>>
    /\ UNCHANGED nonJobVars

ComposeExecFFmpeg == ExecFFmpeg("video:compose", "storage")
ComposeUpload == UploadToS3("video:compose")
ComposeCleanupReturn == CleanupAndReturnUrl("video:compose")
ComposeReturnLocal == ReturnLocalPath("video:compose")
ComposeCatch == CatchCleanupAndReturn("video:compose", "Failed to compose video")

\* ---- processVideoOverlay ----
OverlayMkdir == Mkdir("video:overlay", "download")

\* await downloadFile(videoUrl, videoPath)
OverlayDownloadVideo ==
    ExternalStep("video:overlay", "download", "download", "resolve", "Failed to download")

\* 2. Resolve overlay PNG: bundled asset (priority) or remote URL
OverlayResolveOverlay ==
    /\ Active("video:overlay", "resolve")
    /\ IF job.data.overlayAsset # ""
       THEN IF job.data.overlayAsset \notin BundledAssets
            THEN /\ Return(FailureResult(job.id, <<"Overlay asset not found">>))
                 /\ UNCHANGED <<stages, thrown>>
            ELSE /\ \/ Advance("resolve", "probe")
                    \/ Throw("copyFile failed")
                 /\ UNCHANGED result
       ELSE IF job.data.overlayUrl
       THEN /\ \/ Advance("resolve", "probe")
               \/ Throw("Failed to download")
            /\ UNCHANGED result
       ELSE /\ Return(FailureResult(job.id, <<"Either overlayAsset or overlayUrl must be provided">>))
            /\ UNCHANGED <<stages, thrown>>
    /\ UNCHANGED <<env, requests, request, nextJobId, job, tempDirs, response, inputs,
                   filterComplex, captions, outputFile, maps>>
    /\ UNCHANGED nonJobVars

\* 3. Probe video and overlay dimensions, build the filter
OverlayProbe ==
    ExternalStep("video:overlay", "probe", "probe", "ffmpeg", "ffprobe failed")

OverlayExecFFmpeg == ExecFFmpeg("video:overlay", "storage")
OverlayUpload == UploadToS3("video:overlay")
OverlayCleanupReturn == CleanupAndReturnUrl("video:overlay")
OverlayReturnLocal == ReturnLocalPath("video:overlay")
OverlayCatch == CatchCleanupAndReturn("video:overlay", "Failed to overlay video")

\* ---- processVideoMerge ----
MergeMkdir == Mkdir("video:merge", "download")

\* 1. Download all input videos in parallel
MergeDownloads ==
    ExternalStep("video:merge", "download", "download", "probe", "Failed to download")

\* 2. Probe each video for duration
MergeProbeDurations ==
    ExternalStep("video:merge", "probe", "probe", "ffmpeg", "ffprobe failed")

MergeExecFFmpeg == ExecFFmpeg("video:merge", "probeOutput")

\* 5. Probe output duration; a failing probe is caught and only warned about
MergeProbeOutput ==
    /\ Active("video:merge", "probeOutput")
    /\ Advance("probeOutput", "storage")
    /\ UNCHANGED <<env, requests, request, nextJobId, job, tempDirs, result, response,
                   inputs, filterComplex, captions, outputFile, maps>>
    /\ UNCHANGED nonJobVars

MergeUpload == UploadToS3("video:merge")
MergeCleanupReturn == CleanupAndReturnUrl("video:merge")
MergeReturnLocal == ReturnLocalPath("video:merge")
MergeCatch == CatchCleanupAndReturn("video:merge", "Failed to merge videos")

\* ---- processImageToJpg: throw new Error('Not implemented yet') ----
ProcessImageToJpg ==
    /\ Active("image:jpg", "start")
    /\ thrown' = <<"Not implemented yet">>
    /\ ppc' = "thrown"
    /\ UNCHANGED <<env, requests, request, nextJobId, job, stages, tempDirs, result,
                   response, inputs, filterComplex, captions, outputFile, maps>>
    /\ UNCHANGED nonJobVars

-----------------------------------------------------------------------------
(* The pipeline *)

Init ==
    /\ env \in [server : StorageModes, worker : StorageModes]
    /\ requests = 0
    /\ request = NoRequest
    /\ nextJobId = 1
    /\ job = NoJob
    /\ ppc = "idle"
    /\ stages = <<>>
    /\ thrown = <<>>
    /\ tempDirs = {}
    /\ result = NoResult
    /\ response = NoResponse
    /\ inputs = <<>>
    /\ filterComplex = <<>>
    /\ captions = <<>>
    /\ outputFile = "none"
    /\ maps = <<>>
    /\ CapIdle
    /\ FitIdle
    /\ OvlIdle
    /\ MergeIdle
    /\ CacheIdle
    /\ DownloadIdle
    /\ HealthIdle

Next ==
    \/ ComposeRouteStart \/ ComposeRouteFinish
    \/ OverlayRouteStart \/ OverlayRouteFinish
    \/ MergeRouteStart \/ MergeRouteFinish
    \/ ImageJobStart \/ ImageJobFinish
    \/ WorkerTakeJob \/ WorkerJobCompleted \/ WorkerJobFailed \/ BackoffElapsed
    \/ ComposeMkdir \/ ComposeGenerateASS \/ ComposeGetBackground \/ ComposeDownloads
    \/ ComposeBuildArgs \/ ComposeExecFFmpeg \/ ComposeUpload \/ ComposeCleanupReturn
    \/ ComposeReturnLocal \/ ComposeCatch
    \/ OverlayMkdir \/ OverlayDownloadVideo \/ OverlayResolveOverlay \/ OverlayProbe
    \/ OverlayExecFFmpeg \/ OverlayUpload \/ OverlayCleanupReturn \/ OverlayReturnLocal
    \/ OverlayCatch
    \/ MergeMkdir \/ MergeDownloads \/ MergeProbeDurations \/ MergeExecFFmpeg
    \/ MergeProbeOutput \/ MergeUpload \/ MergeCleanupReturn \/ MergeReturnLocal
    \/ MergeCatch
    \/ ProcessImageToJpg

Spec == Init /\ [][Next]_vars

-----------------------------------------------------------------------------
(* Claims about the caption timing compiler, checked under SpecCaption *)

\* C4: any two distinct segments produced by segmentWords have closed
\* intervals [startTime, endTime] that do not overlap.
C4_SegmentsDisjoint ==
    \A i, j \in 1..Len(segments) :
        i # j => \/ segments[i].endTime < segments[j].startTime
                 \/ segments[j].endTime < segments[i].startTime

\* C5: for every word of a segment other than the first, the highlight-start
\* offset written in its directive is (word.start - segment.startTime) in
\* milliseconds, and is >= 0.
C5_RelativeHighlightStart ==
    \A s \in 1..Len(ass) :
        \A k \in 2..Len(ass[s].text) :
            LET offset == ass[s].text[k].transitions[1].t1
            IN  /\ offset = (segments[s].words[k].start - segments[s].startTime) * 100
                /\ offset >= 0

\* C6: the first word of every segment is rendered already in the highlight
\* colour, has no transition at offset 0, and its only transition is back to
\* the primary colour at the word's relative end time.
C6_FirstWordRule ==
    \A s \in 1..Len(ass) :
        LET d == ass[s].text[1]
            relEnd == (segments[s].words[1].end - segments[s].startTime) * 100
        IN  /\ d.initial = "highlightColor"
            /\ \A n \in 1..Len(d.transitions) : d.transitions[n].t1 # 0
            /\ Len(d.transitions) = 1
            /\ d.transitions[1].color = "primaryColor"
            /\ d.transitions[1].t1 = relEnd

\* C7: every segment holds between 1 and the configured maximum (default 3)
\* words, starts at the start of its first word and ends at the end of its
\* last word.
C7_SegmentShape ==
    \A s \in 1..Len(segments) :
        LET seg == segments[s]
            n == Len(seg.words)
        IN  /\ n >= 1
            /\ n <= (IF wordsPerSegment = 0 THEN 3 ELSE wordsPerSegment)
            /\ seg.startTime = seg.words[1].start
            /\ seg.endTime = seg.words[n].end

C7_Witness ==
    /\ cpc = "done"
    /\ wordsPerSegment = 2
    /\ Len(segments) = 2
    /\ Len(segments[1].words) = 2
    /\ segments[2].startTime > segments[1].endTime

\* Where word i of the request sits in the produced segments
SegmentOf(i) ==
    {s \in 1..Len(segments) : \E k \in 1..Len(segments[s].words) : segments[s].words[k].word = i}
PlaceOf(i, s) ==
    CHOOSE k \in 1..Len(segments[s].words) : segments[s].words[k].word = i

-----------------------------------------------------------------------------
(* Claims about the job pipeline, checked under Spec *)

ProcessorJobs == {"video:compose", "video:overlay", "video:merge"}

Range(seq) == {seq[n] : n \in 1..Len(seq)}

\* C1: whenever processVideoCompose, processVideoOverlay or processVideoMerge
\* returns a result, the job's workspace TEMP_DIR/<job.id> has been deleted.
C1_WorkspaceDeletedOnReturn ==
    (ppc = "returned" /\ job.name \in ProcessorJobs) => job.id \notin tempDirs

\* C2: a job whose attempt failed for a processing reason (download, probe,
\* engine or upload error) surfaces as failed to the caller only after the
\* configured 3 attempts have been made.
C2_RetriedUntilExhausted ==
    ( /\ response.status \notin {0, 200}
      /\ job.state \in {"completed", "failed"}
      /\ thrown # <<>> )
    => job.attemptsMade = 3

\* The current attempt ran the engine to completion and then the upload
EngineThenUpload ==
    \E i, j \in 1..Len(stages) : i < j /\ stages[i] = "ffmpeg" /\ stages[j] = "upload"

EngineFailed ==
    thrown \in {<<"ffmpeg exited with a non-zero code">>, <<"ffmpeg timed out">>}

\* C3: a result reporting failure carries no output URL and no output path; an
\* output URL is returned only when, in the same attempt, the engine and then
\* the upload completed; an engine failure or timeout yields no URL.
C3_NoUrlWithoutEngineAndUpload ==
    /\ (ppc = "returned" /\ ~result.success)
       => (result.outputUrl = {} /\ result.outputPath = {})
    /\ (ppc = "returned" /\ result.outputUrl # {}) => EngineThenUpload
    /\ (ppc = "returned" /\ EngineFailed) => result.outputUrl = {}
    /\ (job.state = "completed" /\ ~job.returnvalue.success)
       => (job.returnvalue.outputUrl = {} /\ job.returnvalue.outputPath = {})
    /\ response.url # {}
       => /\ job.state = "completed"
          /\ job.returnvalue.success
          /\ response.url = {job.id}
          /\ EngineThenUpload
          /\ ~EngineFailed

C3_Witness ==
    /\ response.status = 400
    /\ job.name = "video:compose"
    /\ job.state = "completed"
    /\ thrown = <<"ffmpeg timed out">>
    /\ ~job.returnvalue.success
    /\ response.url = {}

\* The current compose attempt has built its engine arguments
Built ==
    /\ job.name = "video:compose"
    /\ job.state \in {"active", "completed"}
    /\ "build" \in Range(stages)

IsCaptionStage(st) == st.op = "ass"
IsWatermarkStage(st) == st.op \in {"drawtext", "overlay"}

\* C9: in every compose filter graph holding both a caption stage and a
\* watermark stage, the caption stage comes first and the watermark stage
\* works on the captioned stream.
C9_CaptionsBeforeWatermark ==
    \A a, w \in 1..Len(filterComplex) :
        (IsCaptionStage(filterComplex[a]) /\ IsWatermarkStage(filterComplex[w]))
        => (a < w /\ filterComplex[a].out \in Range(filterComplex[w].in))

\* C10: with an empty word-timestamp list the subtitle document has no timed
\* entries and the graph has no caption stage: without a watermark the fitted
\* background is the final stream, with one the watermark is applied to the
\* fitted background directly.
C10_NoCaptionStageWhenEmpty ==
    (Built /\ job.data.wordTimestamps = <<>>)
    => /\ captions = <<>>
       /\ \A n \in 1..Len(filterComplex) : ~IsCaptionStage(filterComplex[n])
       /\ (~UseTextWatermark(job.data) /\ ~job.data.watermarkUrl)
          => \A n \in 1..Len(filterComplex) : L("bg") \notin Range(filterComplex[n].in)
       /\ (UseTextWatermark(job.data) \/ job.data.watermarkUrl)
          => \E n \in 1..Len(filterComplex) :
                /\ IsWatermarkStage(filterComplex[n])
                /\ L("bg") \in Range(filterComplex[n].in)

TextStages == {n \in 1..Len(filterComplex) : filterComplex[n].op = "drawtext"}
ImageStages == {n \in 1..Len(filterComplex) : filterComplex[n].op = "overlay"}

-----------------------------------------------------------------------------
(* Claims about the background fit, checked under SpecFit *)

\* C12: for positive source and target dimensions the background is scaled by
\* the larger of the two factors targetWidth/width and targetHeight/height, so
\* the scaled frame is at least as wide and as high as the target, and the
\* centred crop to the target size fits inside the scaled frame.
C12_CoverScale ==
    /\ fpc \in {"crop", "done"} =>
        /\ scaled.w >= target.w
        /\ scaled.h >= target.h
        /\ IF target.w * source.h >= target.h * source.w
           THEN scaled = [w |-> target.w, h |-> RoundDiv(source.h, target.w, source.w)]
           ELSE scaled = [w |-> RoundDiv(source.w, target.h, source.h), h |-> target.h]
    /\ fpc = "done" =>
        /\ cropped.ok
        /\ cropped.w = target.w /\ cropped.h = target.h
        /\ cropped.w <= scaled.w /\ cropped.h <= scaled.h
        /\ cropped.x >= 0 /\ cropped.x + cropped.w <= scaled.w
        /\ cropped.y >= 0 /\ cropped.y + cropped.h <= scaled.h

\* a source narrower than the target aspect ratio: the width factor is used
\* and the height overshoots
C12_Witness ==
    /\ fpc = "done"
    /\ source = [w |-> 1, h |-> 3]
    /\ target = [w |-> 2, h |-> 4]
    /\ scaled = [w |-> 2, h |-> 6]
    /\ cropped.y = 1

-----------------------------------------------------------------------------
(* Claims about overlay sizing and placement, checked under SpecOverlay *)

\* n is x / y rounded to the nearest integer (x, y > 0)
IsRounded(n, x, y) == y * (2 * n - 1) <= 2 * x /\ 2 * x < y * (2 * n + 1)

\* C16: for an overlay of natural size (w, h), a background of probed width W
\* and a scale fraction s the overlay is scaled to targetWidth = round(W * s)
\* and targetHeight = round(targetWidth * h / w); 500 x 200 on width 1280 at
\* 0.22 gives 282 x 113.
C16_OverlaySizing ==
    /\ opc \in {"filter", "ffmpeg", "done"} =>
        /\ IsRounded(targetSize.w, videoSize.w * overlayJob.overlayScale, 100)
        /\ IsRounded(targetSize.h, targetSize.w * ovlSize.h, ovlSize.w)
        /\ ( /\ ovlSize = [w |-> 500, h |-> 200]
             /\ videoSize.w = 1280
             /\ overlayJob.overlayScale = 22 )
           => targetSize = [w |-> 282, h |-> 113]
    /\ opc \in {"ffmpeg", "done"} =>
        /\ overlayFilter[1].op = "scale"
        /\ overlayFilter[1].in = <<In(1, "v")>>
        /\ overlayFilter[1].w = targetSize.w
        /\ overlayFilter[1].h = targetSize.h

C16_Witness ==
    /\ opc = "done"
    /\ ovlSize = [w |-> 500, h |-> 200]
    /\ videoSize.w = 1280
    /\ overlayJob.overlayScale = 22
    /\ overlayFilter[1].w = 282
    /\ overlayFilter[1].h = 113

-----------------------------------------------------------------------------
(* Claims about the merge argument builder, checked under SpecMerge *)

\* The clip's probed duration after applying its trim bounds
TrimmedDuration(v) ==
    (IF v.end # <<>> /\ v.end[1] < v.fullDuration THEN v.end[1] ELSE v.fullDuration)
    - (IF v.start # <<>> THEN v.start[1] ELSE 0)

RECURSIVE SumTrimmed(_, _)
SumTrimmed(vs, k) == IF k = 0 THEN 0 ELSE SumTrimmed(vs, k - 1) + TrimmedDuration(vs[k])

\* The xfade stages of the built graph, in the order they were written
Xfades == SelectSeq(args.filterParts, LAMBDA st : st.op = "xfade")

MergeBuilt == mpc \in {"ffmpeg", "done"}

\* C13: in crossfade mode with n >= 2 clips the offset of the transition into
\* clip k (k = 1..n-1, clips numbered from 0) is the sum over the clips j < k
\* of (effective duration of j - transitionDuration); 10, 8, 12 with a 1 s
\* transition give 9 and 16.
C13_CrossfadeOffsets ==
    (MergeBuilt /\ transition = "crossfade" /\ Len(videos) >= 2) =>
        /\ Len(Xfades) = Len(videos) - 1
        /\ \A k \in 1..(Len(videos) - 1) :
              /\ Xfades[k].param[2] = (SumTrimmed(videos, k) - k * transitionDuration) * 1000
              /\ Xfades[k].in[2] = ML(<<"v", k>>)
        /\ (videos = ExampleClips /\ transitionDuration = 1)
           => (Xfades[1].param[2] = 9000 /\ Xfades[2].param[2] = 16000)

C13_Witness ==
    /\ mpc = "done"
    /\ transition = "crossfade"
    /\ Len(videos) = 3
    /\ videos[1].start = <<1>>
    /\ videos[2].end = <<2>>
    /\ videos[2].fullDuration = 3
    /\ Xfades[2].param[2] = (videos[1].fullDuration - 1 - 1 + 2 - 1) * 1000

\* C14: for n clips with effective durations d_i and a crossfade of duration
\* t the output duration given by the emitted chain (offset of the last
\* transition plus the effective duration of the last clip) is
\* sum(d_i) - (n-1) * t; for hard cuts it is sum(d_i).
C14_OutputDuration ==
    LET n == Len(videos)
        total == SumTrimmed(videos, n)
    IN  /\ (MergeBuilt /\ transition = "crossfade" /\ n >= 2) =>
            /\ Xfades[n - 1].param[2] + TrimmedDuration(videos[n]) * 1000
               = (total - (n - 1) * transitionDuration) * 1000
            /\ mpc = "done" =>
                /\ outcome.accepted
                /\ outcome.duration = (total - (n - 1) * transitionDuration) * 1000
        /\ (mpc = "done" /\ transition = "none") =>
            /\ outcome.accepted
            /\ outcome.duration = total * 1000
        /\ (mpc = "done" /\ videos = ExampleClips /\ transition = "crossfade"
            /\ transitionDuration = 1)
           => outcome.duration = 28000

C14_Witness ==
    /\ mpc = "done"
    /\ transition = "crossfade"
    /\ Len(videos) = 3
    /\ videos[1].start = <<1>>
    /\ videos[3].end = <<2>>
    /\ videos[3].fullDuration = 3
    /\ outcome.accepted
    /\ outcome.duration = (videos[1].fullDuration - 1 + TrimmedDuration(videos[2]) + 2 - 2) * 1000

\* C15: a merge job with a single clip yields an engine invocation the engine
\* accepts in both transition modes: [vout] and [aout], which the argument
\* list maps, are each produced by a stage of the graph that was built.
C15_SingleClipMapsProduced ==
    (MergeBuilt /\ Len(videos) = 1) =>
        /\ \A m \in 1..Len(args.maps) :
              \E k \in 1..Len(args.filterParts) : args.filterParts[k].out = args.maps[m]
        /\ mpc = "done" => outcome.accepted

-----------------------------------------------------------------------------
(* Claims about stage order and responses, checked under Spec *)

ComposeRunning == job.name = "video:compose" /\ job.state \in {"active", "completed"}

\* Place of a completed step in the order the claim gives:
\* download -> compile timing -> build graph -> engine -> upload -> cleanup
ClaimedRank(stage) ==
    CASE stage = "mkdir" -> 0
      [] stage \in {"background", "download"} -> 1
      [] stage = "generateASS" -> 2
      [] stage = "build" -> 3
      [] stage = "ffmpeg" -> 4
      [] stage = "upload" -> 5
      [] stage = "rm" -> 6

ComposeOrder ==
    <<"mkdir", "generateASS", "background", "download", "build", "ffmpeg", "upload", "rm">>

IsPrefix(a, b) == Len(a) <= Len(b) /\ \A i \in 1..Len(a) : a[i] = b[i]

ProcessingFailure ==
    /\ job.state = "completed"
    /\ ~job.returnvalue.success
    /\ thrown # <<>>

\* The request was turned away by the route, or names a missing bundled asset
CallerInputProblem ==
    \/ job = NoJob
    \/ job.state = "completed" /\ job.returnvalue.error = <<"Overlay asset not found">>

\* C19: a compose or overlay request whose job failed in processing
\* (download, probe, engine or upload) is answered with status 500; status
\* 400 is used only for a caller input problem.
C19_ProcessingFailureIs500 ==
    (request.route \in {"compose", "overlay"} /\ response.status # 0) =>
        /\ ProcessingFailure => response.status = 500
        /\ response.status = 400 => CallerInputProblem

\* The request in flight has a caller input problem the routes check
RouteRejects ==
    /\ request.route \in {"compose", "overlay"}
    /\ \/ env.server # "s3"
       \/ /\ request.route = "overlay"
          /\ request.body.overlayAsset = ""
          /\ ~request.body.overlayUrl

\* C20: a compose or overlay request rejected for a caller input problem
\* (storage mode not s3; overlay request with neither overlayAsset nor
\* overlayUrl) is answered at once with status 400 and no job is added to
\* the queue for it.
C20_RejectedWithoutJob ==
    [][ (requests' = requests + 1 /\ RouteRejects')
        => /\ response'.status = 400
           /\ nextJobId' = nextJobId
           /\ job'.state = "none" ]_vars

C20_Witness ==
    /\ requests = 2
    /\ env.server = "s3"
    /\ request.route = "overlay"
    /\ request.body.overlayAsset = ""
    /\ ~request.body.overlayUrl
    /\ response.status = 400
    /\ nextJobId = 2
    /\ job.state = "none"

-----------------------------------------------------------------------------
(* Part 6 (SpecCache): getCachedBackgroundVideo and downloadFile of          *)
(* utils/video-compose.ts, called by jobs that run at the same time.  Every  *)
(* await of the two functions is a point where another job's call can run.   *)

MaxCalls == 3    \* calls of getCachedBackgroundVideo made in one behaviour

CacheJobs == {"jobA", "jobB"}
BackgroundIds == {"default", "sunset"}

\* const cachedPath = path.join(cacheDir, `${backgroundId}.mp4`)
CachedPath(backgroundId) == <<"/tmp/cache/backgrounds", backgroundId, ".mp4">>

NoReturn == [kind |-> "none", path |-> <<>>, file |-> "none"]

\* A file-system check that only accepts completely written files
ExistsSyncComplete(backgroundId) == cacheFiles[backgroundId] = "complete"

\* existsSync(cachedPath): true as soon as the file has been created
ExistsSync(backgroundId) == cacheFiles[backgroundId] # "absent"

CallsMade == calls["jobA"] + calls["jobB"]

CacheInit ==
    /\ cacheFiles = [b \in BackgroundIds |-> "absent"]
    /\ writers = [b \in BackgroundIds |-> {}]
    /\ gpc = [j \in CacheJobs |-> "idle"]
    /\ calling = [j \in CacheJobs |-> "default"]
    /\ calls = [j \in CacheJobs |-> 0]
    /\ returned = [j \in CacheJobs |-> NoReturn]
    /\ downloaded = {}
    /\ CapIdle
    /\ JobIdle
    /\ FitIdle
    /\ OvlIdle
    /\ MergeIdle
    /\ DownloadIdle
    /\ HealthIdle

\* A job reaches getCachedBackgroundVideo(backgroundId, backgroundUrl)
CallGetCached(j, backgroundId) ==
    /\ gpc[j] = "idle"
    /\ CallsMade < MaxCalls
    /\ gpc' = [gpc EXCEPT ![j] = "existsSync"]
    /\ calling' = [calling EXCEPT ![j] = backgroundId]
    /\ calls' = [calls EXCEPT ![j] = @ + 1]
    /\ returned' = [returned EXCEPT ![j] = NoReturn]
    /\ UNCHANGED <<cacheFiles, writers, downloaded>>
    /\ UNCHANGED nonCacheVars

\* if (existsSync(cachedPath)) return cachedPath
CacheHit(j) ==
    /\ gpc[j] = "existsSync"
    /\ ExistsSync(calling[j])
    /\ returned' = [returned EXCEPT ![j] =
           [kind |-> "hit", path |-> CachedPath(calling[j]),
            file |-> cacheFiles[calling[j]]]]
    /\ gpc' = [gpc EXCEPT ![j] = "idle"]
    /\ UNCHANGED <<cacheFiles, writers, calling, calls, downloaded>>
    /\ UNCHANGED nonCacheVars

\* A miss that waits while another job is downloading the same file
CacheMissExclusive(j) ==
    /\ gpc[j] = "existsSync"
    /\ ~ExistsSync(calling[j])
    /\ \A k \in CacheJobs \ {j} : ~(gpc[k] \in {"fetch", "pipeline"} /\ calling[k] = calling[j])
    /\ gpc' = [gpc EXCEPT ![j] = "fetch"]
    /\ UNCHANGED <<cacheFiles, writers, calling, calls, returned, downloaded>>
    /\ UNCHANGED nonCacheVars

\* Cache miss: await mkdir(cacheDir), then downloadFile starts its fetch
CacheMiss(j) ==
    /\ gpc[j] = "existsSync"
    /\ ~ExistsSync(calling[j])
    /\ gpc' = [gpc EXCEPT ![j] = "fetch"]
    /\ UNCHANGED <<cacheFiles, writers, calling, calls, returned, downloaded>>
    /\ UNCHANGED nonCacheVars

\* downloadFile: fetch rejects, !response.ok or !response.body: the call throws
FetchFails(j) ==
    /\ gpc[j] = "fetch"
    /\ returned' = [returned EXCEPT ![j] =
           [kind |-> "thrown", path |-> <<>>, file |-> cacheFiles[calling[j]]]]
    /\ gpc' = [gpc EXCEPT ![j] = "idle"]
    /\ UNCHANGED <<cacheFiles, writers, calling, calls, downloaded>>
    /\ UNCHANGED nonCacheVars

\* downloadFile: the response is ok; createWriteStream(outputPath) creates or
\* truncates the file and pipeline starts copying the body into it
CreateWriteStream(j) ==
    /\ gpc[j] = "fetch"
    /\ cacheFiles' = [cacheFiles EXCEPT ![calling[j]] = "partial"]
    /\ writers' = [writers EXCEPT ![calling[j]] = @ \cup {j}]
    /\ gpc' = [gpc EXCEPT ![j] = "pipeline"]
    /\ UNCHANGED <<calling, calls, returned, downloaded>>
    /\ UNCHANGED nonCacheVars

\* The state of the file once job j has written its last byte
AfterLastWrite(j) ==
    IF writers[calling[j]] \ {j} = {} THEN "complete" ELSE "partial"

\* await pipeline(response.body, fileStream) resolves; return cachedPath
PipelineDone(j) ==
    /\ gpc[j] = "pipeline"
    /\ cacheFiles' = [cacheFiles EXCEPT ![calling[j]] = AfterLastWrite(j)]
    /\ writers' = [writers EXCEPT ![calling[j]] = @ \ {j}]
    /\ downloaded' = downloaded \cup {calling[j]}
    /\ returned' = [returned EXCEPT ![j] =
           [kind |-> "downloaded", path |-> CachedPath(calling[j]),
            file |-> AfterLastWrite(j)]]
    /\ gpc' = [gpc EXCEPT ![j] = "idle"]
    /\ UNCHANGED <<calling, calls>>
    /\ UNCHANGED nonCacheVars

\* await pipeline(...) rejects (the body ends early): the call throws and the
\* file stays as far as it was written
PipelineFails(j) ==
    /\ gpc[j] = "pipeline"
    /\ writers' = [writers EXCEPT ![calling[j]] = @ \ {j}]
    /\ returned' = [returned EXCEPT ![j] =
           [kind |-> "thrown", path |-> <<>>, file |-> cacheFiles[calling[j]]]]
    /\ gpc' = [gpc EXCEPT ![j] = "idle"]
    /\ UNCHANGED <<cacheFiles, calling, calls, downloaded>>
    /\ UNCHANGED nonCacheVars

CacheNext ==
    \/ \E j \in CacheJobs, b \in BackgroundIds : CallGetCached(j, b)
    \/ \E j \in CacheJobs : CacheHit(j)
    \/ \E j \in CacheJobs : CacheMiss(j)
    \/ \E j \in CacheJobs : FetchFails(j)
    \/ \E j \in CacheJobs : CreateWriteStream(j)
    \/ \E j \in CacheJobs : PipelineDone(j)
    \/ \E j \in CacheJobs : PipelineFails(j)

SpecCache == CacheInit /\ [][CacheNext]_vars

\* The step job j takes out of its existsSync check
LeavesCheck(j) == gpc[j] = "existsSync" /\ gpc'[j] # "existsSync"

\* C21: getCachedBackgroundVideo starts a download only when the cache file
\* does not exist at the time of the check; when the file exists the call
\* returns the cached path and neither downloads nor touches the file; and
\* once a download for a backgroundId has completed, every later check for
\* that id is a hit that returns the same path.
C21_DownloadOnlyOnMiss ==
    [][\A j \in CacheJobs :
          LeavesCheck(j) =>
            /\ gpc'[j] = "fetch" => cacheFiles[calling[j]] = "absent"
            /\ (cacheFiles[calling[j]] # "absent" \/ calling[j] \in downloaded) =>
                 /\ gpc'[j] = "idle"
                 /\ returned'[j].kind = "hit"
                 /\ returned'[j].path = CachedPath(calling[j])
                 /\ cacheFiles' = cacheFiles
                 /\ writers' = writers]_vars

C21_Witness ==
    \E j \in CacheJobs : \E k \in CacheJobs \ {j} :
        /\ returned[k].kind = "downloaded"
        /\ returned[j].kind = "hit"
        /\ returned[j].path = returned[k].path
        /\ returned[j].file = "complete"
        /\ calling[j] \in downloaded

\* C22: the check and the download are not mutually exclusive: a job that
\* finds the file absent always proceeds to download, even while another job
\* is downloading the same backgroundId, and a job whose fetch has answered
\* always opens its write stream; two downloads of one id write one path.
C22_NoMutualExclusion ==
    \A j \in CacheJobs :
        /\ (gpc[j] = "existsSync" /\ cacheFiles[calling[j]] = "absent") => ENABLED CacheMiss(j)
        /\ gpc[j] = "fetch" => ENABLED CreateWriteStream(j)
        /\ \A k \in CacheJobs :
             (gpc[j] = "pipeline" /\ gpc[k] = "pipeline" /\ calling[j] = calling[k]) =>
                 /\ {j, k} \subseteq writers[calling[j]]
                 /\ CachedPath(calling[j]) = CachedPath(calling[k])

C22_Witness ==
    /\ gpc["jobA"] = "pipeline"
    /\ gpc["jobB"] = "pipeline"
    /\ calling["jobA"] = calling["jobB"]
    /\ calls["jobA"] = 1
    /\ calls["jobB"] = 1
    /\ writers[calling["jobA"]] = {"jobA", "jobB"}

\* C26: getCachedBackgroundVideo never returns as a cache hit the path of a
\* file that another job is still downloading: whenever a check ends in a
\* hit, no write stream is open on the file.
C26_NoHitWhileDownloading ==
    [][\A j \in CacheJobs :
          (LeavesCheck(j) /\ returned'[j].kind = "hit") =>
              writers[calling[j]] = {}]_vars

\* C27: a failed download does not leave the id cached: as long as no
\* download of a backgroundId has completed and none is in progress, a check
\* for that id is a miss and downloads again.
C27_FailedDownloadNotCached ==
    [][\A j \in CacheJobs :
          (LeavesCheck(j) /\ calling[j] \notin downloaded /\ writers[calling[j]] = {}) =>
              gpc'[j] = "fetch"]_vars

\* C23: a processor attempt is reported successful only if the engine exited
\* with code 0 and a non-empty output file is present at outputPath; an exit
\* with code 0 that leaves the file missing or empty is reported as failure.
C23_SuccessNeedsOutputFile ==
    (job.name \in ProcessorJobs /\ ppc = "returned" /\ result.success) =>
        /\ "ffmpeg" \in Range(stages)
        /\ outputFile = "written"

\* The labelled streams (as opposed to "[i:v]" / "i:a" streams of an input)
IsLabel(x) == x.label # ""
ProducedBefore(x, n) == \E m \in 1..(n - 1) : filterComplex[m].out = x

\* C24: in every compose filter graph, whatever combination of optional
\* stages it has, no stream label is produced by two stages, every label a
\* stage consumes is produced by an earlier stage, and the labels given to
\* -map ([final], and [audio] when music is present) are produced.
C24_LabelsWellFormed ==
    Built =>
        /\ \A m, n \in 1..Len(filterComplex) :
               filterComplex[m].out = filterComplex[n].out => m = n
        /\ \A n \in 1..Len(filterComplex) : \A x \in Range(filterComplex[n].in) :
               IsLabel(x) => ProducedBefore(x, n)
        /\ \A x \in Range(maps) :
               IsLabel(x) => ProducedBefore(x, Len(filterComplex) + 1)
        /\ L("final") \in Range(maps)
        /\ job.data.musicUrl => L("audio") \in Range(maps)

C24_Witness ==
    /\ Built
    /\ job.data.musicUrl
    /\ UseImageWatermark(job.data)
    /\ Len(filterComplex) = 7
    /\ maps = << L("final"), L("audio") >>

\* The file the engine reads for stream x, by its zero-based -i position
InputFileOf(x) == inputs[x.input + 1]

\* C28: in the compose argument list, the stream index used for the music
\* input and for the watermark image input is the zero-based position of
\* that file among the -i inputs.
C28_InputIndexIsPosition ==
    Built =>
        /\ job.data.musicUrl => inputs[MusicInputIndex(job.data) + 1] = "music"
        /\ job.data.watermarkUrl => inputs[WatermarkInputIndex(job.data) + 1] = "watermark"
        /\ \A n \in 1..Len(filterComplex) : \A x \in Range(filterComplex[n].in) :
               /\ filterComplex[n].out = L("music") =>
                      (x.input \in 0..(Len(inputs) - 1) /\ InputFileOf(x) = "music")
               /\ filterComplex[n].out = L("logo") =>
                      (x.input \in 0..(Len(inputs) - 1) /\ InputFileOf(x) = "watermark")
               /\ filterComplex[n].out = L("tts") =>
                      (x.input \in 0..(Len(inputs) - 1) /\ InputFileOf(x) = "audio")

C28_Witness ==
    /\ Built
    /\ job.data.musicUrl
    /\ UseImageWatermark(job.data)
    /\ \E n \in 1..Len(filterComplex) :
           /\ filterComplex[n].out = L("logo")
           /\ filterComplex[n].in = << In(3, "v") >>
    /\ inputs = <<"background", "audio", "music", "watermark">>

-----------------------------------------------------------------------------
(* Part 7 (SpecMergeOrder): steps 1 to 3 of processVideoMerge seen per       *)
(* input: the parallel downloads resolve in any order, inputPaths is sorted, *)
(* and the probe and the argument builder pair inputPaths[i] with videos[i]. *)

\* const inputPath = path.join(jobDir, `input_${i}.mp4`)
InputPath(i) == <<"jobDir", "input_", i, ".mp4">>

\* parseInt(a.match(/input_(\d+)/)?.[1] || '0')
ParseIndex(inputPath) == inputPath[3]

\* inputPaths left in the order the downloads resolved
SortByArrival(paths) == paths

\* inputPaths.sort((a, b) => aIdx - bIdx): a stable insertion by parsed index
RECURSIVE SortByIndex(_)
InsertByIndex(sorted, p) ==
    LET k == Cardinality({m \in 1..Len(sorted) : ParseIndex(sorted[m]) <= ParseIndex(p)})
    IN  SubSeq(sorted, 1, k) \o <<p>> \o SubSeq(sorted, k + 1, Len(sorted))
SortByIndex(paths) ==
    IF paths = <<>> THEN <<>>
    ELSE InsertByIndex(SortByIndex(SubSeq(paths, 1, Len(paths) - 1)), paths[Len(paths)])

\* What ffprobe reports for a file: input_<i>.mp4 is the download of videos[i].url
ProbedFullDuration(inputPath) == videos[ParseIndex(inputPath) + 1].fullDuration

\* Clip lists whose files differ in length, so that a file tells its clip
DownloadClipLists ==
    {vs \in ClipLists \ {ExampleClips} :
        \A i \in 1..Len(vs) :
            /\ vs[i].fullDuration = ((i - 1) % MaxDur) + 1
            /\ vs[i].start = <<>>}

DownloadInit ==
    /\ videos \in DownloadClipLists
    /\ transition = ""
    /\ transitionDuration = 0
    /\ durations = <<>>
    /\ args = NoArgs
    /\ outcome = NoOutcome
    /\ mpc = "unused"
    /\ pendingDownloads = 0..(Len(videos) - 1)
    /\ arrived = <<>>
    /\ inputPaths = <<>>
    /\ probedDurations = <<>>
    /\ engineInputs = <<>>
    /\ dpc = "download"
    /\ CapIdle
    /\ JobIdle
    /\ FitIdle
    /\ OvlIdle
    /\ CacheIdle
    /\ HealthIdle

\* await downloadFile(video.url, inputPath); inputPaths.push(inputPath)
DownloadResolves(i) ==
    /\ dpc = "download"
    /\ i \in pendingDownloads
    /\ pendingDownloads' = pendingDownloads \ {i}
    /\ arrived' = Append(arrived, i)
    /\ inputPaths' = Append(inputPaths, InputPath(i))
    /\ UNCHANGED <<probedDurations, engineInputs, dpc>>
    /\ UNCHANGED nonDownloadVars

\* Promise.all has resolved; inputPaths.sort(...)
SortInputPaths ==
    /\ dpc = "download"
    /\ pendingDownloads = {}
    /\ inputPaths' = SortByIndex(inputPaths)
    /\ dpc' = "probe"
    /\ UNCHANGED <<pendingDownloads, arrived, probedDurations, engineInputs>>
    /\ UNCHANGED nonDownloadVars

\* 2. for i: trim = videos[i].trim; fullDuration = ffprobe(inputPaths[i]); durations.push(...)
ProbeInputPaths ==
    /\ dpc = "probe"
    /\ probedDurations' =
           [k \in 1..Len(inputPaths) |->
               EffectiveDuration([fullDuration |-> ProbedFullDuration(inputPaths[k]),
                                  start |-> videos[k].start,
                                  end |-> videos[k].end])]
    /\ dpc' = "build"
    /\ UNCHANGED <<pendingDownloads, arrived, inputPaths, engineInputs>>
    /\ UNCHANGED nonDownloadVars

\* 3. for i: trim = videos[i].trim; inputs.push(...ssArgs, ...toArgs, '-i', inputPaths[i])
PushEngineInputs ==
    /\ dpc = "build"
    /\ engineInputs' =
           [k \in 1..Len(inputPaths) |->
               [ss |-> MergeInput(videos, k - 1).ss,
                to |-> MergeInput(videos, k - 1).to,
                file |-> inputPaths[k]]]
    /\ dpc' = "done"
    /\ UNCHANGED <<pendingDownloads, arrived, inputPaths, probedDurations>>
    /\ UNCHANGED nonDownloadVars

DownloadNext ==
    \/ \E i \in 0..(MaxClips - 1) : DownloadResolves(i)
    \/ SortInputPaths
    \/ ProbeInputPaths
    \/ PushEngineInputs

SpecMergeOrder == DownloadInit /\ [][DownloadNext]_vars

\* C25: whatever order the parallel clip downloads resolve in, the engine
\* inputs are the clips' files in request order, and the duration and the
\* trim bounds used for input i are those of the clip whose file is input i.
C25_InputsInRequestOrder ==
    /\ dpc \in {"build", "done"} =>
          \A k \in 1..Len(videos) : probedDurations[k] = EffectiveDuration(videos[k])
    /\ dpc = "done" =>
          /\ Len(engineInputs) = Len(videos)
          /\ \A k \in 1..Len(videos) :
                /\ engineInputs[k].file = InputPath(k - 1)
                /\ engineInputs[k].ss = MergeInput(videos, k - 1).ss
                /\ engineInputs[k].to = MergeInput(videos, k - 1).to

C25_Witness ==
    /\ dpc = "done"
    /\ arrived = <<2, 0, 1>>
    /\ videos[1].end # videos[3].end
    /\ engineInputs[1].file = InputPath(0)

\* The words of a list of segments, one after another
RECURSIVE ConcatWords(_)
ConcatWords(segs) ==
    IF segs = <<>> THEN <<>>
    ELSE ConcatWords(SubSeq(segs, 1, Len(segs) - 1)) \o segs[Len(segs)].words

\* C29: the segments produced by segmentWords, concatenated, are exactly the
\* input words in their input order (none lost, none duplicated, none
\* reordered); an empty timestamp list yields no segments.
C29_SegmentsPartitionWords ==
    cpc # "start" =>
        /\ ConcatWords(segments) =
               [i \in 1..Len(timestamps) |->
                   [word |-> timestamps[i].word, start |-> timestamps[i].start,
                    end |-> timestamps[i].end]]
        /\ timestamps = <<>> => segments = <<>>

C29_Witness ==
    /\ cpc = "done"
    /\ Len(timestamps) = 3
    /\ Len(segments) = 2
    /\ Len(segments[1].words) = 1
    /\ ConcatWords(segments)[3].word = 3

-----------------------------------------------------------------------------
(* Part 8 (SpecHealth, SpecHealthFair): checkRedisHealth of config/redis.ts  *)
(* on the connection made by createRedisConnection.                          *)

\* const maxRetries = 30; const baseDelay = 2000; Math.min(baseDelay * attempt, 10000)
MaxRetries == 30
BaseDelay == 2000
DelayCap == 10000

\* const delay = Math.min(baseDelay * attempt, 10000)
RetryDelay(n) == Min(BaseDelay * n, DelayCap)

\* The server answers, answers with an error, or cannot be reached
RedisServers == {"healthy", "erroring", "unreachable"}

\* createRedisConnection: maxRetriesPerRequest: null and a retryStrategy that
\* always returns a delay.  The connection never stops reconnecting and never
\* fails a queued command, so a command settles only while the server can be
\* reached.
CommandSettles == redisServer # "unreachable"

HealthInit ==
    /\ redisServer \in RedisServers
    /\ attempt = 1
    /\ waited = <<>>
    /\ hpc = "ping"
    /\ CapIdle
    /\ JobIdle
    /\ FitIdle
    /\ OvlIdle
    /\ MergeIdle
    /\ CacheIdle
    /\ DownloadIdle

\* The server goes down, comes back or starts answering with errors
RedisChanges ==
    /\ hpc \in {"ping", "info", "sleep"}
    /\ redisServer' \in RedisServers \ {redisServer}
    /\ UNCHANGED <<attempt, waited, hpc>>
    /\ UNCHANGED nonHealthVars

\* catch (error): throw on the last attempt, otherwise start the timer
CatchError ==
    /\ hpc' = IF attempt = MaxRetries THEN "thrown" ELSE "sleep"
    /\ UNCHANGED <<redisServer, attempt, waited>>
    /\ UNCHANGED nonHealthVars

\* await connection.ping() resolves
PingResolves ==
    /\ hpc = "ping"
    /\ CommandSettles
    /\ redisServer = "healthy"
    /\ hpc' = "info"
    /\ UNCHANGED <<redisServer, attempt, waited>>
    /\ UNCHANGED nonHealthVars

\* await connection.ping() rejects
PingRejects ==
    /\ hpc = "ping"
    /\ CommandSettles
    /\ redisServer = "erroring"
    /\ CatchError

\* await connection.info('server') resolves; return
InfoResolves ==
    /\ hpc = "info"
    /\ CommandSettles
    /\ redisServer = "healthy"
    /\ hpc' = "returned"
    /\ UNCHANGED <<redisServer, attempt, waited>>
    /\ UNCHANGED nonHealthVars

\* await connection.info('server') rejects
InfoRejects ==
    /\ hpc = "info"
    /\ CommandSettles
    /\ redisServer = "erroring"
    /\ CatchError

\* await new Promise((resolve) => setTimeout(resolve, delay)); attempt++
TimerFires ==
    /\ hpc = "sleep"
    /\ waited' = Append(waited, RetryDelay(attempt))
    /\ attempt' = attempt + 1
    /\ hpc' = "ping"
    /\ UNCHANGED redisServer
    /\ UNCHANGED nonHealthVars

\* The steps of checkRedisHealth itself
HealthStep == PingResolves \/ PingRejects \/ InfoResolves \/ InfoRejects \/ TimerFires

HealthNext == HealthStep \/ RedisChanges

SpecHealth == HealthInit /\ [][HealthNext]_vars

\* A step of checkRedisHealth that can be taken again and again is taken in
\* the end (the event loop runs every settled promise and every due timer);
\* the server owes nothing
SpecHealthFair == SpecHealth /\ SF_vars(HealthStep)

\* The attempts and delays of checkRedisHealth: a throw comes after exactly
\* MaxRetries failed attempts, and the k-th failed attempt but the last is
\* followed by a wait of min(2000 * k, 10000) ms.
HealthCheckSchedule ==
    /\ attempt \in 1..MaxRetries
    /\ Len(waited) = attempt - 1
    /\ \A k \in 1..Len(waited) : waited[k] = Min(2000 * k, 10000)
    /\ hpc = "thrown" => attempt = MaxRetries

\* C30: checkRedisHealth always terminates: every run returns or throws.
C30_AlwaysTerminates == <>(hpc \in {"returned", "thrown"})

=============================================================================
